---- MODULE Spec2Model ----
(***************************************************************************)
(* Smart File Sorter (Obsidian plugin): rule matching, destination         *)
(* resolution, single moves, batch sorting, auto-sort and the move history.*)
(*                                                                         *)
(* A JavaScript string is a sequence of one-character strings, so that     *)
(* startsWith, includes, toLowerCase and normalizePath are computed        *)
(* character by character.                                                 *)
(***************************************************************************)
EXTENDS Integers, Sequences, FiniteSets, Bags, TLC

-----------------------------------------------------------------------------
(* String primitives (ECMAScript String.prototype)                         *)

toLowerChar(c) ==
  CASE c = "W" -> "w"
    [] c = "O" -> "o"
    [] c = "A" -> "a"
    [] c = "D" -> "d"
    [] c = "P" -> "p"
    [] c = "N" -> "n"
    [] OTHER -> c

RECURSIVE toLowerCase(_)
toLowerCase(s) ==
  IF s = <<>> THEN <<>> ELSE <<toLowerChar(Head(s))>> \o toLowerCase(Tail(s))

startsWith(s, p) == Len(p) <= Len(s) /\ SubSeq(s, 1, Len(p)) = p

endsWith(s, p) == Len(p) <= Len(s) /\ SubSeq(s, Len(s) - Len(p) + 1, Len(s)) = p

includes(s, p) ==
  \E i \in 0..(Len(s) - Len(p)) : SubSeq(s, i + 1, i + Len(p)) = p

\* s.replace(/^#/, '')
stripHash(s) == IF s # <<>> /\ Head(s) = "#" THEN Tail(s) ELSE s

RECURSIVE trimLeft(_)
trimLeft(s) == IF s # <<>> /\ Head(s) = " " THEN trimLeft(Tail(s)) ELSE s

RECURSIVE trimRight(_)
trimRight(s) ==
  IF s # <<>> /\ s[Len(s)] = " " THEN trimRight(SubSeq(s, 1, Len(s) - 1)) ELSE s

trim(s) == trimRight(trimLeft(s))

\* s.split(','): the pieces between commas, at least one piece
RECURSIVE split(_, _)
split(s, cur) ==
  IF s = <<>> THEN <<cur>>
  ELSE IF Head(s) = "," THEN <<cur>> \o split(Tail(s), <<>>)
  ELSE split(Tail(s), Append(cur, Head(s)))

\* a.join(',')
RECURSIVE join(_)
join(a) ==
  IF a = <<>> THEN <<>>
  ELSE IF Len(a) = 1 THEN a[1]
  ELSE a[1] \o <<",">> \o join(Tail(a))

\* [...new Set(a)]: first occurrences, in order
RECURSIVE dedup(_, _)
dedup(a, seen) ==
  IF a = <<>> THEN <<>>
  ELSE IF Head(a) \in seen THEN dedup(Tail(a), seen)
  ELSE <<Head(a)>> \o dedup(Tail(a), seen \cup {Head(a)})

-----------------------------------------------------------------------------
(* normalizePath of the obsidian API: runs of separators collapse to one   *)
(* '/', leading and trailing separators are stripped, and the empty        *)
(* result is the root "/".                                                 *)

RECURSIVE collapseSlashes(_)
collapseSlashes(s) ==
  IF s = <<>> THEN <<>>
  ELSE IF Len(s) >= 2 /\ s[1] = "/" /\ s[2] = "/" THEN collapseSlashes(Tail(s))
  ELSE <<Head(s)>> \o collapseSlashes(Tail(s))

stripEdgeSlashes(s) ==
  LET a == IF s # <<>> /\ Head(s) = "/" THEN Tail(s) ELSE s
  IN  IF a # <<>> /\ a[Len(a)] = "/" THEN SubSeq(a, 1, Len(a) - 1) ELSE a

normalizePath(s) ==
  LET t == stripEdgeSlashes(collapseSlashes(s))
  IN  IF t = <<>> THEN <<"/">> ELSE t

\* TFile.name: the part of the path after the last '/'
RECURSIVE basename(_)
basename(p) ==
  IF \E i \in 1..Len(p) : p[i] = "/"
  THEN basename(Tail(p))
  ELSE p

\* TFile.extension: the part of the name after the last '.'
RECURSIVE afterLastDot(_)
afterLastDot(n) ==
  IF \E i \in 1..Len(n) : n[i] = "." THEN afterLastDot(Tail(n)) ELSE n

extension(p) ==
  LET n == basename(p)
  IN  IF \E i \in 1..Len(n) : n[i] = "." THEN afterLastDot(n) ELSE <<>>

-----------------------------------------------------------------------------
(* Frontmatter values (parsed YAML): a string, a number, a list of         *)
(* strings, null, or undefined for an absent key.                          *)

StrV(s)  == [t |-> "str",  s |-> s,    n |-> 0, l |-> <<>>]
NumV(n)  == [t |-> "num",  s |-> <<>>, n |-> n, l |-> <<>>]
ListV(l) == [t |-> "list", s |-> <<>>, n |-> 0, l |-> l]
NullV    == [t |-> "null", s |-> <<>>, n |-> 0, l |-> <<>>]
Undefined == [t |-> "undefined", s |-> <<>>, n |-> 0, l |-> <<>>]

Digit(d) ==
  CASE d = 0 -> "0" [] d = 1 -> "1" [] d = 2 -> "2" [] d = 3 -> "3"
    [] d = 4 -> "4" [] d = 5 -> "5" [] d = 6 -> "6" [] d = 7 -> "7"
    [] d = 8 -> "8" [] OTHER -> "9"

RECURSIVE NumToString(_)
NumToString(n) ==
  IF n < 10 THEN <<Digit(n)>> ELSE NumToString(n \div 10) \o <<Digit(n % 10)>>

\* String(v)
String(v) ==
  CASE v.t = "str"  -> v.s
    [] v.t = "num"  -> NumToString(v.n)
    [] v.t = "list" -> join(v.l)
    [] v.t = "null" -> <<"n", "u", "l", "l">>
    [] OTHER -> <<"u", "n", "d", "e", "f", "i", "n", "e", "d">>

\* ToBoolean(v): the test of `if (v)`
Truthy(v) ==
  CASE v.t = "str"  -> v.s # <<>>
    [] v.t = "num"  -> v.n # 0
    [] v.t = "list" -> TRUE
    [] OTHER -> FALSE

\* fm[key] of a frontmatter object
Lookup(fm, key) == IF key \in DOMAIN fm THEN fm[key] ELSE Undefined

-----------------------------------------------------------------------------
(* RegExp: the patterns of the model are literal characters and groups.    *)
(* new RegExp(p) throws on unbalanced parentheses; test() of a literal     *)
(* pattern is an unanchored search, case-folded under the 'i' flag.        *)

RECURSIVE parenDepth(_, _)
parenDepth(p, d) ==
  IF d < 0 THEN d
  ELSE IF p = <<>> THEN d
  ELSE IF Head(p) = "(" THEN parenDepth(Tail(p), d + 1)
  ELSE IF Head(p) = ")" THEN parenDepth(Tail(p), d - 1)
  ELSE parenDepth(Tail(p), d)

RegExpValid(p) == parenDepth(p, 0) = 0

RECURSIVE dropParens(_)
dropParens(p) ==
  IF p = <<>> THEN <<>>
  ELSE IF Head(p) \in {"(", ")"} THEN dropParens(Tail(p))
  ELSE <<Head(p)>> \o dropParens(Tail(p))

RegExpTest(p, ignoreCase, s) ==
  IF ignoreCase
  THEN includes(toLowerCase(s), toLowerCase(dropParens(p)))
  ELSE includes(s, dropParens(p))

-----------------------------------------------------------------------------
(* Metadata cache entry of a file (CachedMetadata), as getFileCache        *)
(* returns it: absent (null), or with an optional frontmatter object and   *)
(* the inline tags.  A frontmatter key that is absent holds Undefined.     *)

NoFrontmatter == [type |-> Undefined, category |-> Undefined, tags |-> Undefined]

NoCache == [present |-> FALSE, hasFM |-> FALSE, fm |-> NoFrontmatter, tags |-> <<>>]

RECURSIVE mapTrim(_)
mapTrim(a) == IF a = <<>> THEN <<>> ELSE <<trim(Head(a))>> \o mapTrim(Tail(a))

\* FileSorter.getAllTags
getAllTags(cache) ==
  LET frontmatterTags == Lookup(cache.fm, "tags")
      fromFrontmatter ==
        IF cache.hasFM /\ Truthy(frontmatterTags)
        THEN IF frontmatterTags.t = "list" THEN frontmatterTags.l
             ELSE IF frontmatterTags.t = "str"
                  THEN mapTrim(split(frontmatterTags.s, <<>>))
                  ELSE <<>>
        ELSE <<>>
  IN  dedup(fromFrontmatter \o cache.tags, {})

\* the callback of fileTags.some in FileSorter.matchesTags
tagSatisfies(tag, rule) ==
  LET tagToMatch == stripHash(toLowerCase(rule.tagValue))
      cleanTag   == stripHash(toLowerCase(tag))
  IN  CASE rule.matchType = "equals" ->
             IF rule.caseSensitive
             THEN stripHash(tag) = stripHash(rule.tagValue)
             ELSE cleanTag = tagToMatch
        [] rule.matchType = "contains"   -> includes(cleanTag, tagToMatch)
        [] rule.matchType = "startsWith" -> startsWith(cleanTag, tagToMatch)
        [] rule.matchType = "endsWith"   -> endsWith(cleanTag, tagToMatch)
        [] rule.matchType = "regex" ->
             IF RegExpValid(rule.tagValue)
             THEN RegExpTest(rule.tagValue, ~rule.caseSensitive, tag)
             ELSE FALSE
        [] OTHER -> FALSE

\* FileSorter.matchesTags
matchesTags(cache, rule) ==
  LET fileTags == getAllTags(cache)
  IN  IF Len(fileTags) = 0 THEN FALSE
      ELSE \E i \in 1..Len(fileTags) : tagSatisfies(fileTags[i], rule)

\* FileSorter.matchesProperty
matchesProperty(cache, rule) ==
  IF ~cache.hasFM THEN FALSE
  ELSE
    LET propertyValue == Lookup(cache.fm, rule.propertyName)
    IN  IF propertyValue.t \in {"undefined", "null"} THEN FALSE
        ELSE
          LET propValueStr == String(propertyValue)
              ruleValueStr == rule.propertyValue
          IN  CASE rule.matchType = "equals" ->
                     IF rule.caseSensitive
                     THEN propValueStr = ruleValueStr
                     ELSE toLowerCase(propValueStr) = toLowerCase(ruleValueStr)
                [] rule.matchType = "contains" ->
                     IF rule.caseSensitive
                     THEN includes(propValueStr, ruleValueStr)
                     ELSE includes(toLowerCase(propValueStr), toLowerCase(ruleValueStr))
                [] rule.matchType = "startsWith" ->
                     IF rule.caseSensitive
                     THEN startsWith(propValueStr, ruleValueStr)
                     ELSE startsWith(toLowerCase(propValueStr), toLowerCase(ruleValueStr))
                [] rule.matchType = "endsWith" ->
                     IF rule.caseSensitive
                     THEN endsWith(propValueStr, ruleValueStr)
                     ELSE endsWith(toLowerCase(propValueStr), toLowerCase(ruleValueStr))
                [] rule.matchType = "regex" ->
                     IF RegExpValid(ruleValueStr)
                     THEN RegExpTest(ruleValueStr, ~rule.caseSensitive, propValueStr)
                     ELSE FALSE
                [] OTHER -> FALSE

\* fileMatchesRule without its first test
fileMatchesRuleIgnoringEnabled(cache, rule) ==
  IF ~cache.present THEN FALSE
  ELSE IF rule.useTags /\ rule.tagValue # <<>> THEN matchesTags(cache, rule)
  ELSE matchesProperty(cache, rule)

\* FileSorter.fileMatchesRule; cache is getFileCache(file).  An optional
\* string field of a rule that is unset is the empty string: the code only
\* tests such a field for truthiness.
fileMatchesRule(cache, rule) ==
  IF ~rule.enabled THEN FALSE
  ELSE IF ~cache.present THEN FALSE
  ELSE IF rule.useTags /\ rule.tagValue # <<>> THEN matchesTags(cache, rule)
  ELSE matchesProperty(cache, rule)

\* new RegExp(p, flags) throws a SyntaxError
newRegExpThrows(p) == ~RegExpValid(p)

\* a regex case without its try block: what is thrown leaves the function
escapesWithoutTry(thrown) == thrown

\* try { new RegExp(...) ... } catch (e) { console.error(...); return false }
\* (lines 402-408 and 478-484): nothing thrown inside leaves the function
escapesTry(thrown) == FALSE

\* FileSorter.matchesTags throws: the callback of some() throws for the first
\* tag
matchesTagsThrows(cache, rule) ==
  /\ Len(getAllTags(cache)) # 0
  /\ rule.matchType = "regex"
  /\ escapesTry(newRegExpThrows(rule.tagValue))

\* FileSorter.matchesProperty throws
matchesPropertyThrows(cache, rule) ==
  /\ cache.hasFM
  /\ Lookup(cache.fm, rule.propertyName).t \notin {"undefined", "null"}
  /\ rule.matchType = "regex"
  /\ escapesTry(newRegExpThrows(rule.propertyValue))

\* FileSorter.fileMatchesRule throws
fileMatchesRuleThrows(cache, rule) ==
  IF ~rule.enabled THEN FALSE
  ELSE IF ~cache.present THEN FALSE
  ELSE IF rule.useTags /\ rule.tagValue # <<>> THEN matchesTagsThrows(cache, rule)
  ELSE matchesPropertyThrows(cache, rule)

\* the loop of findMatchingRule scanning from the last rule
RECURSIVE findLastFrom(_, _, _)
findLastFrom(cache, rules, i) ==
  IF i < 1 THEN 0
  ELSE IF fileMatchesRule(cache, rules[i]) THEN i
  ELSE findLastFrom(cache, rules, i - 1)

findMatchingIndexFromEnd(cache, rules) == findLastFrom(cache, rules, Len(rules))

\* the for loop of FileSorter.findMatchingRule, from position i on
RECURSIVE findFrom(_, _, _)
findFrom(cache, rules, i) ==
  IF i > Len(rules) THEN 0
  ELSE IF fileMatchesRule(cache, rules[i]) THEN i
  ELSE findFrom(cache, rules, i + 1)

\* FileSorter.findMatchingRule: the position in rules of the rule returned,
\* 0 for null
findMatchingIndex(cache, rules) == findFrom(cache, rules, 1)

\* FileSorter.findMatchingRule throws: fileMatchesRule throws for a rule that
\* the loop reaches
findMatchingRuleThrows(cache, rules) ==
  \E k \in 1..Len(rules) :
    /\ fileMatchesRuleThrows(cache, rules[k])
    /\ \A j \in 1..(k - 1) : ~fileMatchesRule(cache, rules[j])

\* rules.filter(r => r.enabled)
RECURSIVE filterEnabled(_)
filterEnabled(rules) ==
  IF rules = <<>> THEN <<>>
  ELSE IF Head(rules).enabled THEN <<Head(rules)>> \o filterEnabled(Tail(rules))
  ELSE filterEnabled(Tail(rules))

-----------------------------------------------------------------------------
(* The vault of the model                                                  *)

a_md == <<"a", ".", "m", "d">>
b_md == <<"b", ".", "m", "d">>
Root == <<"/">>

\* TFile objects: three markdown documents and "g", a file without extension
Files == {"f1", "f2", "f3", "g"}

\* the order in which vault.getMarkdownFiles lists files
FileOrder == <<"f1", "f2", "f3", "g">>

Slash(folder, name) == folder \o <<"/">> \o name

-----------------------------------------------------------------------------
(* Rules and metadata the configurations of the model are drawn from       *)

Rule(id, enabled, dest, sub, subProp, pName, pValue, mType, cs, useTags, tagValue) ==
  [id |-> id, name |-> id, enabled |-> enabled, destinationFolder |-> dest,
   createSubfolders |-> sub, subfolderProperty |-> subProp,
   propertyName |-> pName, propertyValue |-> pValue, matchType |-> mType,
   caseSensitive |-> cs, useTags |-> useTags, tagValue |-> tagValue]

NoRule == Rule("none", FALSE, <<>>, FALSE, "", "", <<>>, "equals", FALSE, FALSE, <<>>)

\* type equals "d" (case-insensitive) -> D
RuleDone == Rule("done", TRUE, <<"D">>, FALSE, "", "type", <<"d">>, "equals", FALSE, FALSE, <<>>)
\* tag contains "w" -> P/<category>
RuleProj == Rule("proj", TRUE, <<"P", "/">>, TRUE, "category", "type", <<>>, "contains", FALSE, TRUE, <<"#", "w">>)
\* disabled, would match every file that has a type -> Z
RuleOff  == Rule("off", FALSE, <<"Z">>, FALSE, "", "type", <<>>, "startsWith", TRUE, FALSE, <<>>)
\* type matches /x/ -> K, a path that the file "g" occupies
RuleKept == Rule("kept", TRUE, <<"K">>, FALSE, "", "type", <<"x">>, "regex", TRUE, FALSE, <<>>)

\* type matches the invalid pattern "(" -> B
RuleBad == Rule("bad", TRUE, <<"B">>, FALSE, "", "type", <<"(">>, "regex", FALSE, FALSE, <<>>)
\* a tag matches the invalid pattern "(" -> B
RuleBadTag == Rule("badtag", TRUE, <<"B">>, FALSE, "", "type", <<>>, "regex", TRUE, TRUE, <<"(">>)

Meta(hasFM, type, category, fmTags, inlineTags) ==
  [present |-> TRUE, hasFM |-> hasFM,
   fm |-> [type |-> type, category |-> category, tags |-> fmTags],
   tags |-> inlineTags]

MetaDone  == Meta(TRUE, StrV(<<"D">>), Undefined, Undefined, <<>>)
MetaProj  == Meta(TRUE, StrV(<<"d">>), StrV(<<"W">>), StrV(<<"o", ",", " ", "W">>), <<>>)
MetaZero  == Meta(TRUE, Undefined, NumV(0), Undefined, <<<<"#", "w">>>>)
MetaKept  == Meta(TRUE, StrV(<<"x">>), Undefined, Undefined, <<>>)
MetaPlain == Meta(FALSE, Undefined, Undefined, Undefined, <<>>)

-----------------------------------------------------------------------------
(* Bounds                                                                  *)

\* operations (commands, notifications, direct calls) started in a behaviour
MaxOps == 2
\* asynchronous operations in progress at the same time
MaxTasks == 2
\* moves recorded in a behaviour of SpecHistory
MaxRecorded == 150

\* main.ts: "Keep only last 100 moves"
HistoryLimit == 100

-----------------------------------------------------------------------------
(* State                                                                   *)

VARIABLES
  path,             \* TFile.path of every file
  folders,          \* paths of the TFolders of the vault (the root excepted)
  children,         \* TFolder.children of the root and of every folder
  cache,            \* metadataCache.getFileCache of every file
  settings,         \* SmartFileSorterPlugin.settings
  processingFiles,  \* SmartFileSorterPlugin.processingFiles
  moveHistory,      \* SmartFileSorterPlugin.moveHistory
  timers,           \* bag of the pending setTimeout callbacks
  task,             \* the asynchronous operations in progress
  now,              \* logical clock read by Date.now()
  started,          \* number of operations started so far
  recorded,         \* history variable: every MoveOperation ever recorded
  lastMoved,        \* history variable: rule of the latest successful move of a file
  ev                \* history variable: what the last step called and returned

vars == <<path, folders, children, cache, settings, processingFiles, moveHistory, timers,
          task, now, started, recorded, lastMoved, ev>>

TaskIds == 1..MaxTasks

IdleTask ==
  [op |-> "idle", pc |-> "idle", file |-> "none", rule |-> NoRule,
   dest |-> <<>>, newPath |-> <<>>, originalPath |-> <<>>, outcome |-> "none",
   rules |-> <<>>, excluded |-> <<>>, files |-> <<>>, i |-> 0,
   moved |-> 0, skipped |-> 0, errors |-> 0,
   withProgress |-> FALSE, progress |-> <<>>, trigger |-> "none",
   recursive |-> FALSE, frames |-> <<>>, scope |-> {}, seen |-> <<>>]

\* nothing observed: of a step, ev records the operation and file it worked on,
\* whether it evaluated an exclusion test (tested) and with what result
\* (excluded), whether it called moveFileByRule (called), reached the
\* occupancy check of the destination (checked), called vault.createFolder
\* (create) or fileManager.renameFile (rename), the outcome of a move that
\* returned in it, whether findMatchingRule threw (thrown), and for auto-sort
\* whether it returned at the processingFiles test (suppressed) and the
\* notification that scheduled it (trigger)
NoEvent ==
  [task |-> 0, op |-> "none", file |-> "none", tested |-> FALSE,
   excluded |-> FALSE, called |-> FALSE, checked |-> FALSE, create |-> FALSE,
   rename |-> FALSE, outcome |-> "none", thrown |-> FALSE, suppressed |-> FALSE,
   trigger |-> "none"]

\* the operations after a step: tr in slot id (no slot when id = 0).  The
\* state after the last step of a call shows what it returned; the next step
\* of the program drops the record of a call that has returned or thrown.
Update(id, tr) ==
  [j \in TaskIds |->
     IF j = id THEN tr
     ELSE IF task[j].pc \in {"done", "thrown"} THEN IdleTask
     ELSE task[j]]

\* a slot that holds no operation in progress
Free(id) == task[id].pc \in {"idle", "done", "thrown"}

\* the lowest free slot
FreeSlot(id) == Free(id) /\ \A j \in TaskIds : j < id => ~Free(j)

-----------------------------------------------------------------------------
(* Vault lookups and primitives                                            *)

\* the files a path is the path of
FilesAt(p) == {f \in Files : path[f] = p}

\* vault.getAbstractFileByPath(p) # null, with the folders fs
existsAt(p, fs) == p = Root \/ p \in fs \/ FilesAt(p) # {}

\* the folder p and its ancestors: what vault.createFolder(p) creates
FolderChain(p) ==
  {SubSeq(p, 1, j) : j \in {k \in 1..Len(p) : k = Len(p) \/ p[k + 1] = "/"}}

\* TAbstractFile.parent.path of the entry with the path p
parentOf(p) ==
  LET slashes == {i \in 1..Len(p) : p[i] = "/"}
  IN  IF slashes = {} THEN Root
      ELSE SubSeq(p, 1, (CHOOSE i \in slashes : \A j \in slashes : j <= i) - 1)

\* the entries of TFolder.children: a TFile or a TFolder
TFile(f) == [kind |-> "file", file |-> f, folder |-> <<>>]
TFolder(p) == [kind |-> "folder", file |-> "none", folder |-> p]

\* the children arrays after fileManager.renameFile has moved the file f
\* from the path from to the path to: the vault takes f out of the array of
\* its old parent and appends it to the array of its new parent
childrenAfterRename(ch, f, from, to) ==
  LET removed == [ch EXCEPT ![parentOf(from)] = SelectSeq(@, LAMBDA c : c # TFile(f))]
  IN  [removed EXCEPT ![parentOf(to)] = Append(@, TFile(f))]

\* the children arrays after vault.createFolder(p): every folder of the
\* chain of p that is new, from position k of p on, gets an empty array and
\* is appended to the array of its parent
RECURSIVE childrenAfterCreate(_, _, _)
childrenAfterCreate(ch, p, k) ==
  IF k > Len(p) THEN ch
  ELSE LET q == SubSeq(p, 1, k)
       IN  IF (k = Len(p) \/ p[k + 1] = "/") /\ q \notin DOMAIN ch
           THEN childrenAfterCreate(
                  [r \in DOMAIN ch \cup {q} |->
                     IF r = q THEN <<>>
                     ELSE IF r = parentOf(q) THEN Append(ch[r], TFolder(q))
                     ELSE ch[r]],
                  p, k + 1)
           ELSE childrenAfterCreate(ch, p, k + 1)

\* vault.getMarkdownFiles()
getMarkdownFiles == SelectSeq(FileOrder, LAMBDA f : extension(path[f]) = <<"m", "d">>)

-----------------------------------------------------------------------------
(* FileSorter.moveFileByRule                                               *)

\* moveFileByRule, lines 508-524: the destination folder
resolveDestination(c, rule) ==
  LET subfolderValue == Lookup(c.fm, rule.subfolderProperty)
      destinationPath ==
        IF /\ rule.createSubfolders /\ rule.subfolderProperty # ""
           /\ c.present /\ c.hasFM
           /\ Truthy(subfolderValue)
        THEN normalizePath(Slash(rule.destinationFolder, String(subfolderValue)))
        ELSE rule.destinationFolder
  IN  normalizePath(destinationPath)

\* moveFileByRule, line 530: the new path of a file named name
newPathOf(destinationPath, name) == normalizePath(Slash(destinationPath, name))

\* ensureFolderExists without the test of line 581: whatever holds the path
\* is taken for the folder
ensureFolderExistsAnyKind(folderPath) ==
  LET normalizedPath == normalizePath(folderPath)
  IN  IF normalizedPath = <<>> \/ normalizedPath = Root THEN "exists"
      ELSE IF ~existsAt(normalizedPath, folders) THEN "create"
      ELSE "exists"

\* FileSorter.ensureFolderExists up to its first primitive: "exists" when it
\* returns, "create" when it calls vault.createFolder, "throw" when the path
\* is held by a file
ensureFolderExists(folderPath) ==
  LET normalizedPath == normalizePath(folderPath)
  IN  IF normalizedPath = <<>> \/ normalizedPath = Root THEN "exists"
      ELSE IF ~existsAt(normalizedPath, folders) THEN "create"
      ELSE IF normalizedPath \notin folders THEN "throw"
      ELSE "exists"

\* recordMove keeping the first HistoryLimit moves
recordMoveKeepOldest(hist, fileName, from, to, ruleName, ts) ==
  LET pushed == Append(hist, [file |-> fileName, from |-> from, to |-> to,
                              rule |-> ruleName, timestamp |-> ts])
  IN  IF Len(pushed) > HistoryLimit THEN SubSeq(pushed, 1, HistoryLimit) ELSE pushed

\* SmartFileSorterPlugin.recordMove: the history after the call
recordMove(hist, fileName, from, to, ruleName, ts) ==
  LET pushed == Append(hist, [file |-> fileName, from |-> from, to |-> to,
                              rule |-> ruleName, timestamp |-> ts])
  IN  IF Len(pushed) > HistoryLimit
      THEN SubSeq(pushed, Len(pushed) - HistoryLimit + 1, Len(pushed))
      ELSE pushed

\* the entry recordMove pushes
MoveOperation(fileName, from, to, ruleName, ts) ==
  [file |-> fileName, from |-> from, to |-> to, rule |-> ruleName, timestamp |-> ts]

\* the callback set in the finally block of autoSortFile; moved notes whether
\* the auto-sort that set it has moved the file
ReleaseTimer(f, moved) ==
  [kind |-> "release", file |-> f, trigger |-> "none", moved |-> moved]
\* the callback set by a create or modify notification
AutoTimer(f, trigger) ==
  [kind |-> "auto", file |-> f, trigger |-> trigger, moved |-> FALSE]

\* sortAllFiles, lines 623-627, counting only the moves
tallyMovedOnly(tr, wasMoved) ==
  [tr EXCEPT !.moved = IF wasMoved THEN @ + 1 ELSE @]

\* sortAllFiles, lines 623-627: the counters after moveFileByRule returned.
\* moveFileByRule catches every error (lines 556-560) and returns false, so
\* the catch block that increments errors (lines 628-631) is never entered.
tally(tr, wasMoved) ==
  [tr EXCEPT !.moved = IF wasMoved THEN @ + 1 ELSE @,
             !.skipped = IF wasMoved THEN @ ELSE @ + 1]

\* sortFolder, lines 681-685: the counters of the innermost call in progress
\* after moveFileByRule returned
tallyFrame(tr, wasMoved) ==
  [tr EXCEPT !.frames[Len(tr.frames)].moved = IF wasMoved THEN @ + 1 ELSE @,
             !.frames[Len(tr.frames)].skipped = IF wasMoved THEN @ ELSE @ + 1]

\* sortAllFiles, lines 634-636: onProgress(i + 1, files.length)
reportProgress(tr) ==
  IF tr.withProgress
  THEN [tr EXCEPT !.progress = Append(@, <<tr.i + 1, Len(tr.files)>>)]
  ELSE tr

\* the for statement of sortAllFiles: i++ and the test i < files.length
advance(tr) ==
  [tr EXCEPT !.i = @ + 1,
             !.pc = IF tr.i + 1 = Len(tr.files) THEN "done" ELSE "loop"]

\* the callers' code after `await moveFileByRule(...)` has returned; p2 is
\* the file paths and tms the pending timers at that point
Finish(id, tr, outcome, p2, tms, evt) ==
  LET f == tr.file
      wasMoved == outcome = "Moved"
      op == MoveOperation(basename(p2[f]), tr.originalPath, p2[f], tr.rule.name, now)
      recording == wasMoved /\ tr.op \in {"auto", "current"}
      batch == advance(reportProgress(tally([tr EXCEPT !.outcome = outcome], wasMoved)))
      single == [tr EXCEPT !.outcome = outcome, !.pc = "done"]
      inFolder == [tallyFrame(tr, wasMoved) EXCEPT !.outcome = outcome, !.pc = "loop"]
  IN  /\ task' = Update(id, IF tr.op = "all" THEN batch
                            ELSE IF tr.op = "folder" THEN inFolder
                            ELSE single)
      /\ ev' = [evt EXCEPT !.outcome = outcome]
      /\ lastMoved' = IF wasMoved THEN [lastMoved EXCEPT ![f] = tr.rule] ELSE lastMoved
      /\ moveHistory' = IF recording
                        THEN recordMove(moveHistory, op.file, op.from, op.to, op.rule, now)
                        ELSE moveHistory
      /\ recorded' = IF recording THEN Append(recorded, op) ELSE recorded
      /\ now' = IF recording THEN now + 1 ELSE now
      /\ timers' = IF tr.op = "auto"
                   THEN tms (+) SetToBag({ReleaseTimer(f, wasMoved)})
                   ELSE tms

\* moveFileByRule, line 533, never finding the file in place
neverInPlace(filePath, newPath) == FALSE

\* moveFileByRule, line 533: file.path === newPath
alreadyInPlace(filePath, newPath) == filePath = newPath

\* moveFileByRule, lines 541-542, finding every destination free
neverOccupied(newPath, f, fs) == FALSE

\* moveFileByRule, lines 541-542: existingFile && existingFile !== file
occupiedByOther(newPath, f, fs) == existsAt(newPath, fs) /\ FilesAt(newPath) # {f}

\* moveFileByRule, lines 530-549, once the destination folder is there:
\* fs is the set of folders at that point
CheckAndRename(id, tr, fs, tms, evt) ==
  LET f == tr.file
      newPath == newPathOf(tr.dest, basename(path[f]))
      tr1 == [tr EXCEPT !.newPath = newPath]
      evc == [evt EXCEPT !.checked = TRUE]
  IN  IF alreadyInPlace(path[f], newPath)
      THEN Finish(id, tr1, "AlreadyInPlace", path, tms, evc)
      ELSE IF occupiedByOther(newPath, f, fs)
      THEN Finish(id, tr1, "Conflict", path, tms, evc)
      ELSE /\ task' = Update(id, [tr1 EXCEPT !.pc = "rename"])
           /\ ev' = [evc EXCEPT !.rename = TRUE]
           /\ timers' = tms
           /\ UNCHANGED <<moveHistory, recorded, now, lastMoved>>

\* moveFileByRule, lines 506-528: from the call to the first primitive
\* that is awaited, or to the return
BeginMove(id, tr0, f, rule, tms, tested) ==
  LET dest == resolveDestination(cache[f], rule)
      tr == [tr0 EXCEPT !.file = f, !.rule = rule, !.dest = dest,
                        !.newPath = <<>>, !.outcome = "none"]
      evt == [NoEvent EXCEPT !.task = id, !.op = tr0.op, !.file = f,
                             !.tested = tested, !.called = TRUE,
                             !.trigger = tr0.trigger]
      status == ensureFolderExists(dest)
  IN  /\ UNCHANGED <<path, folders, children>>
      /\ CASE status = "create" ->
                /\ task' = Update(id, [tr EXCEPT !.pc = "createFolder"])
                /\ ev' = [evt EXCEPT !.create = TRUE]
                /\ timers' = tms
                /\ UNCHANGED <<moveHistory, recorded, now, lastMoved>>
           [] status = "throw" -> Finish(id, tr, "Failed", path, tms, evt)
           [] OTHER -> CheckAndRename(id, tr, folders, tms, evt)

-----------------------------------------------------------------------------
(* Exclusion tests                                                         *)

\* SmartFileSorterPlugin.isFileExcluded
isFileExcluded(filePath, excludedFolders) ==
  IF Len(excludedFolders) = 0 THEN FALSE
  ELSE \E k \in 1..Len(excludedFolders) :
         \/ startsWith(filePath, excludedFolders[k] \o <<"/">>)
         \/ filePath = excludedFolders[k]

\* isFileInExcludedFolder comparing with startsWith(normalizedExcluded)
isFileInExcludedFolderByPrefix(filePath, excludedFolders) ==
  IF Len(excludedFolders) = 0 THEN FALSE
  ELSE \E k \in 1..Len(excludedFolders) :
         startsWith(filePath, normalizePath(excludedFolders[k]))

\* FileSorter.isFileInExcludedFolder
isFileInExcludedFolder(filePath, excludedFolders) ==
  IF Len(excludedFolders) = 0 THEN FALSE
  ELSE \E k \in 1..Len(excludedFolders) :
         LET normalizedExcluded == normalizePath(excludedFolders[k])
         IN  \/ startsWith(filePath, normalizedExcluded \o <<"/">>)
             \/ filePath = normalizedExcluded

-----------------------------------------------------------------------------
(* Notifications and auto-sort                                             *)

IsMarkdown(f) == extension(path[f]) = <<"m", "d">>

\* registerEventHandlers: the 'create' and 'modify' callbacks
Notify(f, trigger) ==
  /\ started < MaxOps
  /\ settings.enableAutoSort
  /\ IF trigger = "create" THEN settings.sortOnCreate ELSE settings.sortOnModify
  /\ IsMarkdown(f)
  /\ timers' = timers (+) SetToBag({AutoTimer(f, trigger)})
  /\ started' = started + 1
  /\ ev' = NoEvent
  /\ UNCHANGED <<path, folders, children, cache, settings, processingFiles, moveHistory,
                 now, recorded, lastMoved>>
  /\ task' = Update(0, IdleTask)

\* the settings tab: onChange of the toggle "Enable automatic sorting", "Sort
\* on file creation" or "Sort on file modification" stores the new value and
\* saves the settings
SetToggle(name) ==
  /\ started < MaxOps
  /\ settings' = [settings EXCEPT ![name] = ~@]
  /\ started' = started + 1
  /\ ev' = NoEvent
  /\ UNCHANGED <<path, folders, children, cache, processingFiles, moveHistory, timers,
                 now, recorded, lastMoved>>
  /\ task' = Update(0, IdleTask)

\* autoSortFile, line 105, never finding the path in the set
neverProcessing(filePath, processing) == FALSE

\* autoSortFile, line 105: this.processingFiles.has(file.path)
isProcessing(filePath, processing) == filePath \in processing

\* autoSortFile, run by its timer, up to the first primitive it awaits
AutoSortFile(id, tm) ==
  LET f == tm.file
      tms == timers (-) SetToBag({tm})
      matching == findMatchingIndex(cache[f], settings.rules)
      tr == [IdleTask EXCEPT !.op = "auto", !.file = f, !.originalPath = path[f],
                             !.trigger = tm.trigger]
  IN  /\ BagIn(tm, timers) /\ tm.kind = "auto"
      /\ FreeSlot(id)
      /\ UNCHANGED <<cache, settings, started>>
      /\ IF isProcessing(path[f], processingFiles)
         THEN /\ timers' = tms
              /\ ev' = [NoEvent EXCEPT !.op = "auto", !.file = f, !.suppressed = TRUE,
                                       !.trigger = tm.trigger]
              /\ UNCHANGED <<path, folders, children, processingFiles, moveHistory, now, recorded, lastMoved>>
              /\ task' = Update(0, IdleTask)
         ELSE IF isFileExcluded(path[f], settings.excludedFolders)
         THEN /\ timers' = tms
              /\ ev' = [NoEvent EXCEPT !.op = "auto", !.file = f,
                                       !.tested = TRUE, !.excluded = TRUE,
                                       !.trigger = tm.trigger]
              /\ UNCHANGED <<path, folders, children, processingFiles, moveHistory, now, recorded, lastMoved>>
              /\ task' = Update(0, IdleTask)
         ELSE /\ processingFiles' = processingFiles \cup {path[f]}
              /\ IF findMatchingRuleThrows(cache[f], settings.rules)
                 THEN \* catch (error), then finally
                      /\ timers' = tms (+) SetToBag({ReleaseTimer(f, FALSE)})
                      /\ ev' = [NoEvent EXCEPT !.op = "auto", !.file = f, !.tested = TRUE,
                                               !.thrown = TRUE, !.trigger = tm.trigger]
                      /\ UNCHANGED <<path, folders, children, moveHistory, now,
                                     recorded, lastMoved>>
                      /\ task' = Update(0, IdleTask)
                 ELSE IF matching = 0
                 THEN /\ timers' = tms (+) SetToBag({ReleaseTimer(f, FALSE)})
                      /\ ev' = [NoEvent EXCEPT !.op = "auto", !.file = f, !.tested = TRUE,
                                               !.trigger = tm.trigger]
                      /\ UNCHANGED <<path, folders, children, moveHistory, now,
                                     recorded, lastMoved>>
                      /\ task' = Update(0, IdleTask)
                 ELSE BeginMove(id, tr, f, settings.rules[matching], tms, TRUE)

\* the callback of the setTimeout in the finally block of autoSortFile
ReleaseProcessing(tm) ==
  /\ BagIn(tm, timers) /\ tm.kind = "release"
  /\ timers' = timers (-) SetToBag({tm})
  /\ processingFiles' = processingFiles \ {path[tm.file]}
  /\ ev' = NoEvent
  /\ UNCHANGED <<path, folders, children, cache, settings, moveHistory, now,
                 started, recorded, lastMoved>>
  /\ task' = Update(0, IdleTask)

-----------------------------------------------------------------------------
(* Commands                                                                *)

\* SmartFileSorterPlugin.sortCurrentFile with f the active file
SortCurrentFile(id, f) ==
  LET matching == findMatchingIndex(cache[f], settings.rules)
      tr == [IdleTask EXCEPT !.op = "current", !.file = f, !.originalPath = path[f]]
  IN  /\ started < MaxOps
      /\ FreeSlot(id)
      /\ IsMarkdown(f)
      /\ started' = started + 1
      /\ UNCHANGED <<cache, settings, processingFiles>>
      /\ IF findMatchingRuleThrows(cache[f], settings.rules)
         THEN \* the error leaves sortCurrentFile
              /\ task' = Update(id, [tr EXCEPT !.pc = "thrown"])
              /\ ev' = [NoEvent EXCEPT !.task = id, !.op = "current", !.file = f,
                                       !.thrown = TRUE]
              /\ UNCHANGED <<path, folders, children, moveHistory, timers, now, recorded,
                             lastMoved>>
         ELSE /\ matching # 0
              /\ settings.rules[matching].enabled
              /\ BeginMove(id, tr, f, settings.rules[matching], timers, FALSE)

\* FileSorter.sortAllFiles, lines 594-604: the task of a call
sortAllFilesCall(rules, excludedFolders, withProgress) ==
  LET files == getMarkdownFiles
      enabledRules == filterEnabled(rules)
      tr == [IdleTask EXCEPT !.op = "all", !.files = files, !.rules = enabledRules,
                             !.excluded = excludedFolders,
                             !.withProgress = withProgress]
  IN  IF Len(enabledRules) = 0 \/ Len(files) = 0
      THEN [tr EXCEPT !.pc = "done"]
      ELSE [tr EXCEPT !.pc = "loop"]

\* SmartFileSorterPlugin.sortAllFiles
PluginSortAllFiles(id) ==
  /\ started < MaxOps
  /\ FreeSlot(id)
  /\ Len(filterEnabled(settings.rules)) # 0
  /\ task' = Update(id, sortAllFilesCall(settings.rules, settings.excludedFolders, TRUE))
  /\ started' = started + 1
  /\ ev' = NoEvent
  /\ UNCHANGED <<path, folders, children, cache, settings, processingFiles, moveHistory,
                 timers, now, recorded, lastMoved>>

\* FileSorter.sortAllFiles called by any client of the class
CallSortAllFiles(id, withProgress) ==
  /\ started < MaxOps
  /\ FreeSlot(id)
  /\ task' = Update(id, sortAllFilesCall(settings.rules, settings.excludedFolders,
                                         withProgress))
  /\ started' = started + 1
  /\ ev' = NoEvent
  /\ UNCHANGED <<path, folders, children, cache, settings, processingFiles, moveHistory,
                 timers, now, recorded, lastMoved>>

\* FileSorter.sortAllFiles, lines 606-637: one iteration of the loop, up to
\* the first primitive it awaits
SortAllStep(id) ==
  LET tr == task[id]
      n == Len(tr.files)
      f == tr.files[tr.i + 1]
      matching == findMatchingIndex(cache[f], tr.rules)
      here == [tr EXCEPT !.file = f, !.rule = NoRule, !.dest = <<>>,
                         !.newPath = <<>>, !.outcome = "none"]
      evt == [NoEvent EXCEPT !.task = id, !.op = "all", !.file = f, !.tested = TRUE]
  IN  /\ tr.op = "all" /\ tr.pc = "loop"
      /\ UNCHANGED <<cache, settings, processingFiles, started>>
      /\ IF ~isFileInExcludedFolder(path[f], tr.excluded)
            /\ findMatchingRuleThrows(cache[f], tr.rules)
         THEN \* findMatchingRule is called outside the try block: the error
              \* leaves sortAllFiles
              /\ task' = Update(id, [here EXCEPT !.pc = "thrown"])
              /\ ev' = [evt EXCEPT !.thrown = TRUE]
              /\ UNCHANGED <<path, folders, children, moveHistory, timers, now, recorded, lastMoved>>
         ELSE IF isFileInExcludedFolder(path[f], tr.excluded)
         THEN \* skipped++; continue
              /\ task' = Update(id, advance([here EXCEPT !.skipped = @ + 1]))
              /\ ev' = [evt EXCEPT !.excluded = TRUE]
              /\ UNCHANGED <<path, folders, children, moveHistory, timers, now, recorded, lastMoved>>
         ELSE IF matching = 0
         THEN /\ task' = Update(id, advance(reportProgress([here EXCEPT !.skipped = @ + 1])))
              /\ ev' = evt
              /\ UNCHANGED <<path, folders, children, moveHistory, timers, now, recorded, lastMoved>>
         ELSE BeginMove(id, [tr EXCEPT !.originalPath = path[f]], f,
                        tr.rules[matching], timers, TRUE)

\* a call of sortFolder(folder, ...) in progress: k children of the folder
\* have been taken from the iterator of folder.children so far
Frame(folder) == [folder |-> folder, k |-> 0, moved |-> 0, skipped |-> 0, errors |-> 0]

\* the markdown documents sortFolder(folder, rules, recursive) is about:
\* the children of the folder, with recursive its descendants
Scope(folder, recursive) ==
  {f \in Files :
     /\ IsMarkdown(f)
     /\ IF recursive
        THEN folder = Root \/ startsWith(path[f], folder \o <<"/">>)
        ELSE parentOf(path[f]) = folder}

\* FileSorter.sortFolder, lines 667-670: the task of a call; scope and seen
\* note the documents in scope at the call and the documents the loops take
\* up, in order
sortFolderCall(folder, rules, recursive) ==
  [IdleTask EXCEPT !.op = "folder", !.pc = "loop", !.rules = filterEnabled(rules),
                   !.recursive = recursive, !.frames = <<Frame(folder)>>,
                   !.scope = Scope(folder, recursive)]

\* SmartFileSorterPlugin.sortCurrentFolder with f the active file
SortCurrentFolder(id, f, recursive) ==
  /\ started < MaxOps
  /\ FreeSlot(id)
  /\ Len(filterEnabled(settings.rules)) # 0
  /\ task' = Update(id, sortFolderCall(parentOf(path[f]), settings.rules, recursive))
  /\ started' = started + 1
  /\ ev' = NoEvent
  /\ UNCHANGED <<path, folders, children, cache, settings, processingFiles,
                 moveHistory, timers, now, recorded, lastMoved>>

\* FileSorter.sortFolder, lines 672-699: one iteration of the loop of the
\* innermost call in progress, up to the first primitive it awaits, or the
\* return of that call when the iterator of folder.children is exhausted.
\* The iterator reads the array as it is at each iteration.
SortFolderStep(id) ==
  LET tr == task[id]
      depth == Len(tr.frames)
      top == tr.frames[depth]
      kids == children[top.folder]
      child == kids[top.k + 1]
      f == child.file
      stepped == [tr EXCEPT !.frames[depth].k = @ + 1, !.file = "none",
                            !.rule = NoRule, !.dest = <<>>, !.newPath = <<>>,
                            !.outcome = "none"]
      taken == [stepped EXCEPT !.file = f, !.seen = Append(@, f)]
      matching == findMatchingIndex(cache[f], tr.rules)
      evt == [NoEvent EXCEPT !.task = id, !.op = "folder"]
      quiet == /\ UNCHANGED <<path, folders, children, moveHistory, timers, now,
                              recorded, lastMoved>>
  IN  /\ tr.op = "folder" /\ tr.pc = "loop"
      /\ UNCHANGED <<cache, settings, processingFiles, started>>
      /\ IF top.k >= Len(kids)
         THEN \* return { moved, skipped, errors }
              /\ IF depth = 1
                 THEN task' = Update(id, [tr EXCEPT !.pc = "done", !.frames = <<>>,
                                                    !.moved = top.moved,
                                                    !.skipped = top.skipped,
                                                    !.errors = top.errors])
                 ELSE task' = Update(id,
                        [tr EXCEPT !.frames =
                           [SubSeq(tr.frames, 1, depth - 1) EXCEPT
                              ![depth - 1].moved = @ + top.moved,
                              ![depth - 1].skipped = @ + top.skipped,
                              ![depth - 1].errors = @ + top.errors]])
              /\ ev' = evt
              /\ quiet
         ELSE IF child.kind = "file" /\ IsMarkdown(f)
         THEN IF findMatchingRuleThrows(cache[f], tr.rules)
              THEN \* findMatchingRule is called outside the try block
                   /\ task' = Update(id, [taken EXCEPT !.pc = "thrown"])
                   /\ ev' = [evt EXCEPT !.file = f, !.thrown = TRUE]
                   /\ quiet
              ELSE IF matching = 0
              THEN /\ task' = Update(id, [taken EXCEPT !.frames[depth].skipped = @ + 1])
                   /\ ev' = [evt EXCEPT !.file = f]
                   /\ quiet
              ELSE BeginMove(id, [taken EXCEPT !.originalPath = path[f]], f,
                             tr.rules[matching], timers, FALSE)
         ELSE IF tr.recursive /\ child.kind = "folder"
         THEN \* await this.sortFolder(child, rules, recursive)
              /\ task' = Update(id, [stepped EXCEPT !.frames = Append(@, Frame(child.folder))])
              /\ ev' = evt
              /\ quiet
         ELSE /\ task' = Update(id, stepped)
              /\ ev' = evt
              /\ quiet

-----------------------------------------------------------------------------
(* Completion of the storage primitives                                    *)

\* vault.createFolder completes: ok, or it throws; then moveFileByRule goes on
CreateFolderDone(id, ok) ==
  LET tr == task[id]
      chain == FolderChain(tr.dest)
      evt == [NoEvent EXCEPT !.task = id, !.op = tr.op, !.file = tr.file,
                             !.trigger = tr.trigger]
  IN  /\ tr.pc = "createFolder"
      /\ UNCHANGED <<cache, settings, processingFiles, started, path>>
      /\ IF ok
         THEN /\ ~existsAt(tr.dest, folders)
              /\ \A p \in chain : FilesAt(p) = {}
              /\ folders' = folders \cup chain
              /\ children' = childrenAfterCreate(children, tr.dest, 1)
              /\ CheckAndRename(id, tr, folders \cup chain, timers, evt)
         ELSE /\ UNCHANGED <<folders, children>>
              /\ Finish(id, tr, "Failed", path, timers, evt)

\* fileManager.renameFile completes: ok, or it throws; then moveFileByRule
\* returns to its caller
RenameDone(id, ok) ==
  LET tr == task[id]
      f == tr.file
      evt == [NoEvent EXCEPT !.task = id, !.op = tr.op, !.file = f,
                             !.trigger = tr.trigger]
      moved == [path EXCEPT ![f] = tr.newPath]
  IN  /\ tr.pc = "rename"
      /\ UNCHANGED <<cache, settings, processingFiles, started, folders>>
      /\ IF ok
         THEN /\ ~existsAt(tr.newPath, folders)
              /\ path' = moved
              /\ children' = childrenAfterRename(children, f, path[f], tr.newPath)
              /\ Finish(id, tr, "Moved", moved, timers, evt)
         ELSE /\ UNCHANGED <<path, children>>
              /\ Finish(id, tr, "Failed", path, timers, evt)

-----------------------------------------------------------------------------
(* The plugin in a vault                                                   *)

N_a == Slash(<<"N">>, a_md)
D_a == Slash(<<"D">>, a_md)
A_b == Slash(<<"A">>, b_md)

RuleLists == { <<RuleOff, RuleBad, RuleBadTag, RuleProj, RuleDone, RuleKept>> }

ExcludedLists == { <<>>, << <<"D", "/">>, <<"N", "/", "a">>, <<"A">> >> }

\* the children arrays of the vault N/a.md, D/a.md, A/b.md, K
InitChildren ==
  (Root :> <<TFolder(<<"N">>), TFolder(<<"D">>), TFolder(<<"A">>), TFile("g")>>)
  @@ (<<"N">> :> <<TFile("f1")>>)
  @@ (<<"D">> :> <<TFile("f2")>>)
  @@ (<<"A">> :> <<TFile("f3")>>)

InitVault ==
  /\ path = [f1 |-> N_a, f2 |-> D_a, f3 |-> A_b, g |-> <<"K">>]
  /\ folders = {<<"N">>, <<"D">>, <<"A">>}
  /\ children = InitChildren
  /\ cache \in {[f1 |-> c1, f2 |-> c2, f3 |-> c3, g |-> NoCache] :
                  c1 \in {MetaProj, MetaKept, MetaZero},
                  c2 \in {MetaZero},
                  c3 \in {MetaDone}}

InitIdle ==
  /\ processingFiles = {}
  /\ moveHistory = <<>>
  /\ timers = EmptyBag
  /\ task = [id \in TaskIds |-> IdleTask]
  /\ now = 1
  /\ started = 0
  /\ recorded = <<>>
  /\ lastMoved = [f \in Files |-> NoRule]
  /\ ev = NoEvent

Init ==
  /\ InitVault
  /\ InitIdle
  /\ settings \in {[rules |-> rs, excludedFolders |-> ex, enableAutoSort |-> TRUE,
                    sortOnCreate |-> TRUE, sortOnModify |-> TRUE] :
                     rs \in RuleLists, ex \in ExcludedLists}

Next ==
  \/ \E f \in Files, trigger \in {"create", "modify"} : Notify(f, trigger)
  \/ \E name \in {"enableAutoSort", "sortOnCreate", "sortOnModify"} : SetToggle(name)
  \/ \E id \in TaskIds, tm \in BagToSet(timers) : AutoSortFile(id, tm)
  \/ \E tm \in BagToSet(timers) : ReleaseProcessing(tm)
  \/ \E id \in TaskIds, f \in Files : SortCurrentFile(id, f)
  \/ \E id \in TaskIds : PluginSortAllFiles(id)
  \/ \E id \in TaskIds : SortAllStep(id)
  \/ \E id \in TaskIds, ok \in BOOLEAN : CreateFolderDone(id, ok)
  \/ \E id \in TaskIds, ok \in BOOLEAN : RenameDone(id, ok)

Spec == Init /\ [][Next]_vars

\* what follows the start of an auto-sort without any further input: a
\* primitive that was called completes, and a release timer that was set
\* fires
Scheduled ==
  \/ \E tm \in BagToSet(timers) : ReleaseProcessing(tm)
  \/ \E id \in TaskIds, ok \in BOOLEAN : CreateFolderDone(id, ok)
  \/ \E id \in TaskIds, ok \in BOOLEAN : RenameDone(id, ok)

FairSpec == Spec /\ WF_vars(Scheduled)

\* the plugin driven by notifications and the settings tab only: no command
\* is run
NextAuto ==
  \/ \E f \in Files, trigger \in {"create", "modify"} : Notify(f, trigger)
  \/ \E name \in {"enableAutoSort", "sortOnCreate", "sortOnModify"} : SetToggle(name)
  \/ \E id \in TaskIds, tm \in BagToSet(timers) : AutoSortFile(id, tm)
  \/ \E tm \in BagToSet(timers) : ReleaseProcessing(tm)
  \/ \E id \in TaskIds, ok \in BOOLEAN : CreateFolderDone(id, ok)
  \/ \E id \in TaskIds, ok \in BOOLEAN : RenameDone(id, ok)

SpecAuto == Init /\ [][NextAuto]_vars

-----------------------------------------------------------------------------
(* FileSorter.findMatchingRule on its own: any metadata, any rule list     *)

\* rules in a list of SpecMatch
MaxRules == 2

MatchTypes == {"equals", "contains", "startsWith", "endsWith", "regex"}

MatchRules ==
  {Rule("m", en, <<"D">>, FALSE, "", "type", <<"d">>, mt, cs, ut, <<"#", "w">>) :
     en \in BOOLEAN, mt \in MatchTypes, cs \in BOOLEAN, ut \in BOOLEAN}
  \cup
  {Rule("m", TRUE, <<"D">>, FALSE, "", "type", <<"(", "d">>, "regex", cs, ut, <<"w", ")">>) :
     cs \in BOOLEAN, ut \in BOOLEAN}
  \cup
  {Rule("m", TRUE, <<"D">>, FALSE, "", "type", <<"d">>, "equals", FALSE, TRUE, <<>>)}

\* the frontmatter of MetaDone and the inline tag of MetaZero
MetaDoneTagged == Meta(TRUE, StrV(<<"D">>), Undefined, Undefined, <<<<"#", "w">>>>)

MatchMetas == {MetaDone, MetaDoneTagged, MetaProj, MetaZero, MetaPlain, NoCache}

DefaultSettings ==
  [rules |-> <<RuleOff, RuleDone, RuleProj>>, excludedFolders |-> <<>>,
   enableAutoSort |-> TRUE, sortOnCreate |-> TRUE, sortOnModify |-> TRUE]

InitMatch ==
  /\ path = [f1 |-> N_a, f2 |-> D_a, f3 |-> A_b, g |-> <<"K">>]
  /\ folders = {<<"N">>, <<"D">>, <<"A">>}
  /\ children = InitChildren
  /\ cache \in {[f1 |-> c, f2 |-> NoCache, f3 |-> NoCache, g |-> NoCache] : c \in MatchMetas}
  /\ settings \in {[DefaultSettings EXCEPT !.rules = rs] :
                     rs \in UNION {[1..n -> MatchRules] : n \in 0..MaxRules}}
  /\ InitIdle

\* a client calls findMatchingRule(f, settings.rules)
CallFindMatchingRule(id, f) ==
  LET matching == findMatchingIndex(cache[f], settings.rules)
  IN  /\ task[id].pc = "idle"
      /\ task' = Update(id,
                    [IdleTask EXCEPT !.op = "find", !.file = f,
                                     !.pc = IF findMatchingRuleThrows(cache[f], settings.rules)
                                            THEN "thrown" ELSE "done",
                                     !.rules = settings.rules, !.i = matching,
                                     !.rule = IF matching = 0 THEN NoRule
                                              ELSE settings.rules[matching]])
      /\ ev' = NoEvent
      /\ UNCHANGED <<path, folders, children, cache, settings, processingFiles, moveHistory,
                     timers, now, started, recorded, lastMoved>>

NextMatch == \E f \in {"f1"} : CallFindMatchingRule(1, f)

SpecMatch == InitMatch /\ [][NextMatch]_vars

\* C1: findMatchingRule returns the rule of lowest index for which
\* fileMatchesRule is true, none when no rule matches, and never a rule whose
\* enabled flag is false.
C1_FirstMatchWins ==
  \A id \in TaskIds :
    LET tr == task[id]
        R == tr.rules
        hits == {k \in 1..Len(R) : fileMatchesRule(cache[tr.file], R[k])}
    IN  (tr.op = "find" /\ tr.pc = "done") =>
          /\ hits = {} => (tr.i = 0 /\ tr.rule = NoRule)
          /\ hits # {} => (tr.i \in hits /\ \A k \in hits : tr.i <= k)
          /\ tr.i # 0 => (tr.rule = R[tr.i] /\ tr.rule.enabled)

\* a disabled rule that would match stands before the rule returned, and a
\* later rule matches too
C1_Witness ==
  LET tr == task[1]
  IN  /\ tr.op = "find" /\ tr.pc = "done" /\ tr.i = 2 /\ Len(tr.rules) >= 2
      /\ ~tr.rules[1].enabled
      /\ fileMatchesRuleIgnoringEnabled(cache[tr.file], tr.rules[1])

-----------------------------------------------------------------------------
(* SmartFileSorterPlugin.recordMove on its own: a long run of recorded     *)
(* moves                                                                   *)

InitHistory ==
  /\ path = [f1 |-> N_a, f2 |-> D_a, f3 |-> A_b, g |-> <<"K">>]
  /\ folders = {<<"N">>, <<"D">>, <<"A">>}
  /\ children = InitChildren
  /\ cache = [f1 |-> MetaDone, f2 |-> MetaPlain, f3 |-> MetaDone, g |-> NoCache]
  /\ settings = DefaultSettings
  /\ InitIdle

\* recordMove(file.name, originalPath, file.path, rule.name) after a move
RecordMoveCall(f, to) ==
  LET op == MoveOperation(basename(path[f]), path[f], to, "done", now)
  IN  /\ Len(recorded) < MaxRecorded
      /\ moveHistory' = recordMove(moveHistory, op.file, op.from, op.to, op.rule, now)
      /\ recorded' = Append(recorded, op)
      /\ now' = now + 1
      /\ ev' = NoEvent
      /\ UNCHANGED <<path, folders, children, cache, settings, processingFiles, timers,
                     started, lastMoved>>
      /\ task' = Update(0, IdleTask)

NextHistory == \E f \in {"f1"} : RecordMoveCall(f, D_a)

SpecHistory == InitHistory /\ [][NextHistory]_vars

Min(a, b) == IF a <= b THEN a ELSE b

LastN(q, n) == SubSeq(q, Len(q) - n + 1, Len(q))

\* C7: the history log never holds more than 100 entries, and after n
\* recorded moves it holds the min(n, 100) most recently recorded ones, in
\* recording order.
C7_HistoryBound ==
  /\ Len(moveHistory) <= 100
  /\ moveHistory = LastN(recorded, Min(Len(recorded), 100))

\* after 150 recorded moves the log holds moves 51..150
C7_Witness ==
  /\ Len(recorded) = 150
  /\ Len(moveHistory) = 100
  /\ moveHistory[1] = recorded[51]
  /\ moveHistory[100] = recorded[150]

-----------------------------------------------------------------------------
(* FileSorter driven by any client: sortAllFiles with any rule list        *)

InitSorter ==
  /\ InitVault
  /\ InitIdle
  /\ settings \in {[DefaultSettings EXCEPT !.rules = rs, !.excludedFolders = ex] :
                     rs \in RuleLists \cup {<<RuleOff>>}, ex \in ExcludedLists}

NextSorter ==
  \/ \E id \in TaskIds, withProgress \in BOOLEAN : CallSortAllFiles(id, withProgress)
  \/ \E id \in TaskIds : SortAllStep(id)
  \/ \E id \in TaskIds, ok \in BOOLEAN : CreateFolderDone(id, ok)
  \/ \E id \in TaskIds, ok \in BOOLEAN : RenameDone(id, ok)

SpecSorter == InitSorter /\ [][NextSorter]_vars

\* the markdown documents of the collection
MarkdownCount == Cardinality({f \in Files : IsMarkdown(f)})

\* C4 as claimed: whatever the rule list, the counters a call of sortAllFiles
\* returns add up to the number of markdown documents.
C4_SumIsTotal ==
  \A id \in TaskIds :
    LET tr == task[id]
    IN  (tr.op = "all" /\ tr.pc = "done") =>
          tr.moved + tr.skipped + tr.errors = MarkdownCount

\* C4 amended: with at least one enabled rule the counters returned add up to
\* the number of markdown documents; with no enabled rule the call returns
\* three zeros.
C4_SumIsTotalWhenEnabled ==
  \A id \in TaskIds :
    LET tr == task[id]
    IN  (tr.op = "all" /\ tr.pc = "done") =>
          IF \E k \in 1..Len(settings.rules) : settings.rules[k].enabled
          THEN tr.moved + tr.skipped + tr.errors = MarkdownCount
          ELSE tr.moved = 0 /\ tr.skipped = 0 /\ tr.errors = 0

\* a finished call that moved one document and skipped the others
C4_Witness ==
  \E id \in TaskIds :
    /\ task[id].op = "all" /\ task[id].pc = "done"
    /\ task[id].moved >= 1 /\ task[id].skipped >= 1
    /\ task[id].i = MarkdownCount

-----------------------------------------------------------------------------
(* Claims about the plugin (Spec)                                          *)

\* C2: once a move of a file by a rule has succeeded, the next move of that
\* file by the same rule (the metadata cache never changes) returns false as
\* AlreadyInPlace, calls neither renameFile nor createFolder, and leaves the
\* paths of the files and the folders as they are.
C2_SecondMoveInPlace ==
  [][\A id \in TaskIds :
       (/\ ev'.called /\ ev'.task = id
        /\ task'[id].rule # NoRule
        /\ lastMoved[ev'.file] = task'[id].rule)
       => (/\ ev'.outcome = "AlreadyInPlace"
           /\ ~ev'.rename /\ ~ev'.create
           /\ task'[id].pc \notin {"rename", "createFolder"}
           /\ path' = path /\ folders' = folders)]_vars

\* a second move by the rule that moved the file has just returned
C2_Witness ==
  /\ ev.called /\ ev.task # 0 /\ ev.outcome = "AlreadyInPlace"
  /\ task[ev.task].rule # NoRule
  /\ lastMoved[ev.file] = task[ev.task].rule

\* C3: when moveFileByRule finds the new path held by a folder or by another
\* file, it does not call renameFile, no path changes, and it returns false
\* as Conflict.
C3_ConflictRefused ==
  [][\A id \in TaskIds :
       LET newPath == task'[id].newPath
       IN  (/\ ev'.checked /\ ev'.task = id
            /\ (newPath \in folders' \/ FilesAt(newPath) \ {ev'.file} # {}))
           => (/\ ~ev'.rename
               /\ task'[id].pc # "rename"
               /\ path' = path
               /\ ev'.outcome = "Conflict")]_vars

\* a move has just been refused because another file holds the new path
C3_Witness ==
  /\ ev.checked /\ ev.task # 0 /\ ev.outcome = "Conflict"
  /\ FilesAt(task[ev.task].newPath) \ {ev.file} # {}
  /\ path[ev.file] # task[ev.task].newPath

\* C5 as claimed: in a batch, a move that ends in Failed because createFolder
\* or renameFile threw adds one to errors and nothing to moved and skipped.
C5_FailedCountsAsError ==
  [][\A id \in TaskIds :
       (ev'.task = id /\ ev'.op = "all" /\ ev'.outcome = "Failed" /\ ~ev'.called)
       => (/\ task'[id].errors = task[id].errors + 1
           /\ task'[id].moved = task[id].moved
           /\ task'[id].skipped = task[id].skipped)]_vars

\* C6 as claimed: a step in which a move returns Moved appends exactly one
\* MoveOperation {file, from, to, rule, timestamp} for it to the history,
\* whichever operation made the move; any other step appends nothing.
C6_EveryMoveRecorded ==
  [][IF ev'.outcome = "Moved"
     THEN /\ Len(moveHistory') = Len(moveHistory) + 1
          /\ SubSeq(moveHistory', 1, Len(moveHistory)) = moveHistory
          /\ LET op == moveHistory'[Len(moveHistory')]
             IN  /\ op.file = basename(path'[ev'.file])
                 /\ op.from = path[ev'.file]
                 /\ op.to = path'[ev'.file]
                 /\ op.rule = task'[ev'.task].rule.name
     ELSE moveHistory' = moveHistory]_vars

\* the segments of a path
RECURSIVE SegmentsFrom(_, _)
SegmentsFrom(p, cur) ==
  IF p = <<>> THEN <<cur>>
  ELSE IF Head(p) = "/" THEN <<cur>> \o SegmentsFrom(Tail(p), <<>>)
  ELSE SegmentsFrom(Tail(p), Append(cur, Head(p)))

Segments(p) == SegmentsFrom(p, <<>>)

\* the segments of entry are the first segments of the path p
IsSegmentPrefix(entry, p) ==
  LET se == Segments(entry)
      sp == Segments(p)
  IN  Len(se) <= Len(sp) /\ SubSeq(sp, 1, Len(se)) = se

\* the path equals an entry or starts with an entry followed by '/'
ExcludedAsStored(p, entries) ==
  \E k \in 1..Len(entries) :
    p = entries[k] \/ startsWith(p, entries[k] \o <<"/">>)

\* the exclusion list an operation tests against
EntriesOf(e) == IF e.op = "all" THEN task[e.task].excluded ELSE settings.excludedFolders

\* C8 as claimed: sortAllFiles and auto-sort treat a document as excluded
\* exactly when its path equals an excluded entry or starts with an excluded
\* entry followed by '/', and never call moveFileByRule for such a document.
C8_ExcludedIffEntryPrefix ==
  ev.tested =>
    (ev.excluded <=> ExcludedAsStored(path[ev.file], EntriesOf(ev)))

\* C8 amended: sortAllFiles treats a document as excluded exactly when the
\* segments of some entry, normalized by normalizePath, are the first segments
\* of its path; auto-sort does so for the entries as they are stored; an
\* excluded document is never handed to moveFileByRule by either, its path
\* does not change, and sortAllFiles counts it as skipped.
C8_ExcludedIffSegmentPrefix ==
  /\ [](ev.tested =>
          (ev.excluded <=>
             \E k \in 1..Len(EntriesOf(ev)) :
               IsSegmentPrefix(IF ev.op = "all"
                               THEN normalizePath(EntriesOf(ev)[k])
                               ELSE EntriesOf(ev)[k],
                               path[ev.file])))
  /\ [](ev.excluded => ~ev.called)
  /\ [][ev'.excluded =>
          /\ path' = path
          /\ ev'.op = "all" =>
               /\ task'[ev'.task].skipped = task[ev'.task].skipped + 1
               /\ task'[ev'.task].moved = task[ev'.task].moved
               /\ task'[ev'.task].errors = task[ev'.task].errors]_vars

\* sortAllFiles has just skipped an excluded document after moving another
\* whose path starts with the characters of an entry without being under it
C8_Witness ==
  /\ ev.tested /\ ev.excluded /\ ev.op = "all"
  /\ task[ev.task].moved >= 1
  /\ \E f \in Files, k \in 1..Len(EntriesOf(ev)) :
       /\ lastMoved[f] # NoRule
       /\ startsWith(N_a, EntriesOf(ev)[k])

\* C9 as claimed: a call of sortAllFiles over N documents with a progress
\* callback has called it N times when it returns, the k-th time with (k, N).
C9_ProgressPerDocument ==
  \A id \in TaskIds :
    LET tr == task[id]
        n == Len(tr.files)
    IN  (tr.op = "all" /\ tr.pc = "done" /\ tr.withProgress) =>
          /\ Len(tr.progress) = n
          /\ \A k \in 1..Len(tr.progress) : tr.progress[k] = <<k, n>>

\* the name each file was created with
nameOf(f) == IF f \in {"f1", "f2"} THEN a_md ELSE IF f = "f3" THEN b_md ELSE <<"K">>

\* folder/segment
Below(folder, segment) == IF folder = Root THEN segment ELSE Slash(folder, segment)

\* the destination folder C10 describes
ClaimedFolder(c, rule) ==
  LET base == normalizePath(rule.destinationFolder)
      value == Lookup(c.fm, rule.subfolderProperty)
      presentNonEmpty ==
        /\ c.present /\ c.hasFM
        /\ value.t \notin {"undefined", "null"}
        /\ String(value) # <<>>
  IN  IF rule.createSubfolders /\ rule.subfolderProperty # "" /\ presentNonEmpty
      THEN Below(base, String(value))
      ELSE base

\* C10 as claimed: the destination folder of a move is the normalized
\* destinationFolder of the rule, extended by the stringified value of
\* subfolderProperty exactly when createSubfolders is true and the property
\* is set, present and non-empty; the new path is that folder, '/', and the
\* name of the file, and no file ever changes its name.
C10_Destination ==
  /\ \A id \in TaskIds :
       LET tr == task[id]
       IN  (tr.op \in {"auto", "current", "all"} /\ tr.rule # NoRule) =>
             /\ tr.dest = ClaimedFolder(cache[tr.file], tr.rule)
             /\ tr.newPath # <<>> => tr.newPath = Below(tr.dest, nameOf(tr.file))
  /\ \A f \in Files : basename(path[f]) = nameOf(f)

\* the pattern of a regex rule is not a valid regular expression
HasInvalidPattern(rule) ==
  /\ rule.matchType = "regex"
  /\ \/ ~RegExpValid(IF rule.useTags THEN rule.tagValue ELSE rule.propertyValue)
     \/ ~RegExpValid(IF rule.useTags /\ rule.tagValue # <<>>
                     THEN rule.tagValue ELSE rule.propertyValue)

\* the lowest position of a rule with a valid pattern that matches, 0 for none
FirstValidMatch(c, rules) ==
  LET hits == {k \in 1..Len(rules) :
                 ~HasInvalidPattern(rules[k]) /\ fileMatchesRule(c, rules[k])}
  IN  IF hits = {} THEN 0 ELSE CHOOSE k \in hits : \A j \in hits : k <= j

\* the step observed in e has called findMatchingRule
LookedUp(e) == e.called \/ e.thrown \/ (e.tested /\ ~e.excluded)

\* C11: for the file an operation has just looked up, a regex rule whose
\* pattern is invalid never makes fileMatchesRule or findMatchingRule throw;
\* fileMatchesRule is false for it, findMatchingRule returns the first
\* matching rule among the others, no operation ends by an error thrown out
\* of the rule lookup, and a batch that has returned has gone through every
\* document.
C11_InvalidRegexNoMatch ==
  /\ ~ev.thrown
  /\ \A id \in TaskIds :
       LET tr == task[id]
       IN  /\ tr.pc # "thrown"
           /\ (tr.op = "all" /\ tr.pc = "done") =>
                 /\ tr.i = Len(tr.files)
                 /\ tr.moved + tr.skipped + tr.errors = Len(tr.files)
  /\ \A f \in {g \in Files : g = ev.file /\ LookedUp(ev)} :
       /\ \A k \in 1..Len(settings.rules) :
            HasInvalidPattern(settings.rules[k]) =>
              /\ ~fileMatchesRuleThrows(cache[f], settings.rules[k])
              /\ ~fileMatchesRule(cache[f], settings.rules[k])
       /\ ~findMatchingRuleThrows(cache[f], settings.rules)
       /\ findMatchingIndex(cache[f], settings.rules)
            = FirstValidMatch(cache[f], settings.rules)

\* a batch whose rules start with two rules of invalid pattern, enabled and
\* applicable to the first document, has returned after moving that document
\* by a later rule
C11_Witness ==
  \E id \in TaskIds :
    LET tr == task[id]
    IN  /\ tr.op = "all" /\ tr.pc = "done" /\ tr.i = 3 /\ tr.moved >= 1
        /\ Len(tr.rules) >= 3
        /\ HasInvalidPattern(tr.rules[1]) /\ tr.rules[1].enabled
        /\ HasInvalidPattern(tr.rules[2]) /\ tr.rules[2].enabled
        /\ lastMoved["f1"] = tr.rules[3]
        /\ Lookup(cache["f1"].fm, "type") # Undefined
        /\ getAllTags(cache["f1"]) # <<>>

\* the toggles that let a notification of this kind schedule an auto-sort
TriggerEnabled(trigger) ==
  /\ settings.enableAutoSort
  /\ IF trigger = "create" THEN settings.sortOnCreate ELSE settings.sortOnModify

\* C12 as claimed: whenever auto-sort hands a file to moveFileByRule, and
\* whenever a move made by auto-sort completes, enableAutoSort is true and so
\* is the toggle of the notification that scheduled it.
C12_MovesOnlyWhenEnabled ==
  (ev.op = "auto" /\ (ev.called \/ ev.outcome = "Moved")) => TriggerEnabled(ev.trigger)

\* the paths the documents are created with
DocumentPaths == {N_a, D_a, A_b}

\* C13 as claimed: whenever the path a document was created with is in
\* processingFiles, it is eventually out of it.
C13_MarkerReleased ==
  \A p \in DocumentPaths : (p \in processingFiles) ~> (p \notin processingFiles)

\* the step is a run of autoSortFile from its start
HandlerStep(e) == e.op = "auto" /\ (e.suppressed \/ e.tested)

\* C14 as claimed: a run of autoSortFile for a file that starts while the
\* release timer of an auto-sort that moved this file is still pending
\* returns at the processingFiles test, without a rule lookup and without a
\* call of moveFileByRule.
C14_NoRetriggerAfterMove ==
  [][(/\ HandlerStep(ev')
      /\ BagIn(ReleaseTimer(ev'.file, TRUE), timers))
     => (ev'.suppressed /\ ~ev'.tested /\ ~ev'.called)]_vars

\* the auto-sorts of file f whose moveFileByRule awaits a primitive
InFlight(f) ==
  {id \in TaskIds : /\ task[id].op = "auto" /\ task[id].file = f
                    /\ task[id].pc \in {"createFolder", "rename"}}

Related(matchType, s, p) ==
  CASE matchType = "contains"   -> includes(s, p)
    [] matchType = "startsWith" -> startsWith(s, p)
    [] OTHER                    -> endsWith(s, p)

\* the comparison C16 describes: marker-stripped tag against marker-stripped
\* rule value, both case-folded only when caseSensitive is false
ClaimedTagMatch(c, rule) ==
  \E i \in 1..Len(getAllTags(c)) :
    LET tag == stripHash(getAllTags(c)[i])
        value == stripHash(rule.tagValue)
    IN  IF rule.caseSensitive
        THEN Related(rule.matchType, tag, value)
        ELSE Related(rule.matchType, toLowerCase(tag), toLowerCase(value))

\* C16 as claimed: for every enabled tag rule of a list that findMatchingRule
\* has gone through, with matchType contains, startsWith or endsWith,
\* fileMatchesRule is true exactly when some tag of the file is related to the
\* rule value, compared without the marker and case-folded only when
\* caseSensitive is false.
C16_TagCaseSensitive ==
  \A id \in TaskIds :
    LET tr == task[id]
    IN  (tr.op = "find" /\ tr.pc = "done" /\ cache[tr.file].present) =>
          \A k \in 1..Len(tr.rules) :
            (/\ tr.rules[k].enabled /\ tr.rules[k].useTags
             /\ tr.rules[k].tagValue # <<>>
             /\ tr.rules[k].matchType \in {"contains", "startsWith", "endsWith"})
            => (fileMatchesRule(cache[tr.file], tr.rules[k])
                  <=> ClaimedTagMatch(cache[tr.file], tr.rules[k]))

\* two metadata snapshots with the same tags
SameTags(c, d) == c.present = d.present /\ getAllTags(c) = getAllTags(d)

\* two metadata snapshots with the same properties apart from the tags
SameProperties(c, d) ==
  /\ c.present = d.present /\ c.hasFM = d.hasFM
  /\ c.fm.type = d.fm.type /\ c.fm.category = d.fm.category

\* C17 as claimed: for every enabled rule of a list that findMatchingRule has
\* gone through, fileMatchesRule gives one result for all snapshots with the
\* same tags and any property fields of the rule when useTags is true, and
\* one result for all snapshots with the same properties and any tagValue
\* when useTags is false.
C17_UseTagsSelectsTarget ==
  \A id \in TaskIds :
    LET tr == task[id]
        c == cache[tr.file]
    IN  (tr.op = "find" /\ tr.pc = "done") =>
          \A k \in 1..Len(tr.rules) :
            LET r == tr.rules[k]
            IN  IF r.useTags
                THEN \A d \in MatchMetas, v \in {<<"d">>, <<"z">>} :
                       SameTags(c, d) =>
                         (fileMatchesRule(d, [r EXCEPT !.propertyValue = v])
                            <=> fileMatchesRule(c, r))
                ELSE \A d \in MatchMetas, v \in {<<>>, <<"#", "w">>, <<"z">>} :
                       SameProperties(c, d) =>
                         (fileMatchesRule(d, [r EXCEPT !.tagValue = v])
                            <=> fileMatchesRule(c, r))

-----------------------------------------------------------------------------
(* A destination folder path that a file holds                             *)

\* the path p is held by a file, not by a folder
HeldByFile(p) == FilesAt(p) # {} /\ p \notin folders

\* C18: a step that calls moveFileByRule with a destination folder path that
\* a file holds creates no folder, does not call renameFile, leaves every
\* path and the folders as they are, returns in the same step with an
\* outcome that is not Moved and lets no error escape; in a batch the
\* document is counted as skipped and the loop goes on to the next one.
C18_WrongKindRejected ==
  [][(ev'.called /\ HeldByFile(task'[ev'.task].dest)) =>
       LET id == ev'.task
       IN  /\ ~ev'.create /\ ~ev'.rename /\ ~ev'.thrown
           /\ path' = path /\ folders' = folders
           /\ ev'.outcome = "Failed"
           /\ task'[id].pc # "thrown"
           /\ task'[id].pc \notin {"createFolder", "rename"}
           /\ ev'.op = "all" =>
                 /\ task'[id].i = task[id].i + 1
                 /\ task'[id].skipped = task[id].skipped + 1
                 /\ task'[id].moved = task[id].moved
                 /\ task'[id].pc = IF task'[id].i = Len(task'[id].files)
                                   THEN "done" ELSE "loop"]_vars

\* a batch has just been refused a move into the path of the file g and is
\* about to go on with the next document
C18_Witness ==
  /\ ev.op = "all" /\ ev.called /\ ev.outcome = "Failed"
  /\ HeldByFile(task[ev.task].dest)
  /\ task[ev.task].pc = "loop"
  /\ path[ev.file] # newPathOf(task[ev.task].dest, basename(path[ev.file]))

-----------------------------------------------------------------------------
(* FileSorter.sortFolder, one call at a time, in a folder with documents    *)
(* and a child folder                                                      *)

N_b == Slash(<<"N">>, b_md)
N_S == Slash(<<"N">>, <<"S">>)
N_T == Slash(<<"N">>, <<"T">>)

\* type equals "d" -> N/S, a child of the folder N
RuleIn == Rule("in", TRUE, N_S, FALSE, "", "type", <<"d">>, "equals", FALSE, FALSE, <<>>)
\* type equals "d" -> N/T, which does not exist at first
RuleNew == Rule("new", TRUE, N_T, FALSE, "", "type", <<"d">>, "equals", FALSE, FALSE, <<>>)

\* the folder N holds a.md, b.md, the folder S with a b.md of its own, and
\* the file g; D is empty
InitFolder ==
  /\ path = [f1 |-> N_a, f2 |-> N_b, f3 |-> Slash(N_S, b_md), g |-> Slash(<<"N">>, <<"g">>)]
  /\ folders = {<<"N">>, N_S, <<"D">>}
  /\ children = (Root :> <<TFolder(<<"N">>), TFolder(<<"D">>)>>)
                @@ (<<"N">> :> <<TFile("f1"), TFile("f2"), TFolder(N_S), TFile("g")>>)
                @@ (N_S :> <<TFile("f3")>>)
                @@ (<<"D">> :> <<>>)
  /\ cache \in {[f1 |-> c1, f2 |-> c2, f3 |-> c3, g |-> NoCache] :
                  c1 \in {MetaDone, MetaPlain},
                  c2 \in {MetaDone, MetaPlain},
                  c3 \in {MetaDone, MetaPlain}}
  /\ settings \in {[DefaultSettings EXCEPT !.rules = rs] :
                     rs \in {<<RuleOff, RuleDone>>, <<RuleIn>>, <<RuleNew>>}}
  /\ InitIdle

\* one call at a time: the command is run when no call is in progress
NextFolder ==
  \/ \E id \in {i \in TaskIds : \A j \in TaskIds : Free(j)},
        f \in Files, recursive \in BOOLEAN :
       SortCurrentFolder(id, f, recursive)
  \/ \E id \in TaskIds : SortFolderStep(id)
  \/ \E id \in TaskIds, ok \in BOOLEAN : CreateFolderDone(id, ok)
  \/ \E id \in TaskIds, ok \in BOOLEAN : RenameDone(id, ok)

SpecFolder == InitFolder /\ [][NextFolder]_vars

\* how often the loops of a call have taken up the document f
TimesSeen(tr, f) == Cardinality({k \in 1..Len(tr.seen) : tr.seen[k] = f})

\* C19: when a call of sortFolder returns, its loops have taken up every
\* markdown document that was in scope at the call exactly once and no other
\* document, and moved + skipped + errors is the number of documents that
\* were in scope.
C19_EachDocumentOnce ==
  \A id \in TaskIds :
    LET tr == task[id]
    IN  (tr.op = "folder" /\ tr.pc = "done") =>
          /\ \A f \in Files : TimesSeen(tr, f) = IF f \in tr.scope THEN 1 ELSE 0
          /\ tr.moved + tr.skipped + tr.errors = Cardinality(tr.scope)

-----------------------------------------------------------------------------
(* Two auto-sorts with one destination path                                *)

\* the auto-sorts that have called renameFile and wait for it
Renaming == {id \in TaskIds : task[id].op = "auto" /\ task[id].pc = "rename"}

\* C20: under every interleaving of the auto-sort handlers of two files
\* with the same name and the same destination, renameFile is in progress
\* for at most one of them, and a rename in progress never has for target a
\* path that another file holds.
C20_NoDestinationRace ==
  /\ \A i, j \in Renaming : task[i].newPath = task[j].newPath => i = j
  /\ \A i \in Renaming : FilesAt(task[i].newPath) \subseteq {task[i].file}

-----------------------------------------------------------------------------
(* The two exclusion tests on their own: any list of stored entries        *)

\* entries in a list of SpecExcluded
MaxEntries == 2

\* lines as the settings tab stores them: trimmed and not empty
ExcludedEntries ==
  { <<"A">>, <<"A", "/">>, <<"/", "A">>, <<"D">>, <<"D", "/", "/">>,
    <<"N", "/", "a">>, <<"N", "/", "/", "a", ".", "m", "d">>, D_a }

InitExcluded ==
  /\ path = [f1 |-> N_a, f2 |-> D_a, f3 |-> A_b, g |-> <<"K">>]
  /\ folders = {<<"N">>, <<"D">>, <<"A">>}
  /\ children = InitChildren
  /\ cache = [f1 |-> MetaDone, f2 |-> MetaPlain, f3 |-> MetaDone, g |-> NoCache]
  /\ settings \in {[DefaultSettings EXCEPT !.excludedFolders = ex] :
                     ex \in UNION {[1..n -> ExcludedEntries] : n \in 0..MaxEntries}}
  /\ InitIdle

\* what a test returned
Answer(b) == IF b THEN "excluded" ELSE "notExcluded"

\* autoSortFile and sortAllFiles test the file f against the stored list:
\* slot 1 holds the answer of isFileExcluded (line 110), slot 2 the answer of
\* isFileInExcludedFolder (line 610)
CallExclusionTests(f) ==
  LET auto == [IdleTask EXCEPT
                 !.op = "isFileExcluded", !.pc = "done", !.file = f,
                 !.excluded = settings.excludedFolders,
                 !.outcome = Answer(isFileExcluded(path[f], settings.excludedFolders))]
      batch == [IdleTask EXCEPT
                 !.op = "isFileInExcludedFolder", !.pc = "done", !.file = f,
                 !.excluded = settings.excludedFolders,
                 !.outcome = Answer(isFileInExcludedFolder(path[f],
                                                           settings.excludedFolders))]
  IN  /\ task' = [j \in TaskIds |-> IF j = 1 THEN auto ELSE IF j = 2 THEN batch
                                     ELSE IdleTask]
      /\ ev' = [NoEvent EXCEPT !.file = f, !.tested = TRUE]
      /\ UNCHANGED <<path, folders, children, cache, settings, processingFiles,
                     moveHistory, timers, now, started, recorded, lastMoved>>

NextExcluded == \E f \in Files : CallExclusionTests(f)

SpecExcluded == InitExcluded /\ [][NextExcluded]_vars

\* C21: for every file and every list of stored entries, isFileExcluded and
\* isFileInExcludedFolder return the same answer.
C21_ExclusionTestsAgree ==
  (/\ task[1].op = "isFileExcluded" /\ task[1].pc = "done"
   /\ task[2].op = "isFileInExcludedFolder" /\ task[2].pc = "done"
   /\ task[1].file = task[2].file)
    => task[1].outcome = task[2].outcome

====
